---- MODULE Spec2Model ----
(***************************************************************************)
(* A model of the entain services: the races repository (one-time Init,    *)
(* List, Get, the filtered query builder applyFilter and the row mapper    *)
(* scanRaces), the sports domain service ListEvents, and the API gateway's *)
(* run.                                                                    *)
(*                                                                         *)
(* Query text is a sequence of string fragments, one per piece the code    *)
(* concatenates; the text is their concatenation.  Instants are small      *)
(* integers; the clock is the wall clock time.Now() reads.                 *)
(***************************************************************************)
EXTENDS Integers, Sequences, FiniteSets, TLC

VARIABLES
    table,      \* the races table, in rowid order: row i has id i
    clock,      \* the wall clock
    op,         \* the request in flight or last served: "none", "List", "Get"
    pc,         \* "idle", "scan" (inside scanRaces), "done"
    filter,     \* List's filter argument
    getId,      \* Get's filter.Id
    query,      \* the query text handed to db.Query
    rows,       \* the open cursor: the rows the query selected, in result order
    pos,        \* rows already consumed from the cursor
    races,      \* scanRaces' local slice
    evalAt,     \* history: the instant time.Now() returned for each element of races
    fault,      \* history: the store or mapping failure the request met, "none" if none
    ret,        \* what List or Get returned
    resp,       \* what the domain service returned for a List
    once,       \* racesRepo.init: [done, m] of sync.Once
    ipc,        \* each Init caller's position
    ierr,       \* each Init call's local err
    iret,       \* what each Init call returned
    seedRuns,   \* history: executions of the seed logic started
    seedDone,   \* history: executions of the seed logic completed
    seedErr,    \* history: the error of the completed seed execution
    gpc,        \* the gateway's position in run
    registered, \* the backends whose handlers are registered on the gateway's mux
    cancelled,  \* run's context has been cancelled
    served,     \* history: the HTTP listener was started
    runRet      \* what run returned

queryVars == <<table, clock, op, pc, filter, getId, query, rows, pos, races,
               evalAt, fault, ret, resp>>
readVars == <<clock, op, pc, filter, getId, query, rows, pos, races, evalAt,
              fault, ret, resp>>
initVars == <<once, ipc, ierr, iret, seedRuns, seedDone, seedErr>>
gatewayVars == <<gpc, registered, cancelled, served, runRet>>
vars == <<queryVars, initVars, gatewayVars>>

(***************************************************************************)
(* Bounds and input sets.                                                  *)
(***************************************************************************)
MaxRows == 2
MaxClock == 2
NumCallers == 3

MeetingIdValues == {1, 2}
MeetingIdLists == {<<>>, <<1>>, <<2, 1>>}
OrderByValues == {"", "ASC", "DESC", "asc"}
Callers == 1..NumCallers

Nil == "nil"
NilRace == [isNil |-> TRUE]

\* ptypes.TimestampProto accepts instants in [minValidSeconds, maxValidSeconds),
\* 0001-01-01 to 10000-01-01.  On the model's scale the clock runs from
\* minValidSeconds and stays far below maxValidSeconds.
minValidSeconds == 0
maxValidSeconds == 10
ValidInstant(t) == t >= minValidSeconds /\ t < maxValidSeconds
StartTimes == {minValidSeconds - 1, 1, 2, maxValidSeconds}

NilFilter == [present |-> FALSE, MeetingIds |-> <<>>, VisibleOnly |-> FALSE, OrderBy |-> ""]
Filters ==
    {NilFilter} \cup
    [present : {TRUE}, MeetingIds : MeetingIdLists, VisibleOnly : BOOLEAN,
     OrderBy : OrderByValues]

\* The stored rows: every meeting, visibility and convertible start time, and
\* two rows whose start times TimestampProto rejects, one before the valid
\* range and one at its upper end.
RowValues ==
    {v \in [meeting_id : MeetingIdValues, visible : BOOLEAN,
            advertised_start_time : StartTimes] :
        ~ValidInstant(v.advertised_start_time) => (v.meeting_id = 1 /\ v.visible)}

\* The table's row at rowid i: id is the INTEGER PRIMARY KEY.
MakeRow(i, v) ==
    [id |-> i, meeting_id |-> v.meeting_id, name |-> "race", number |-> i,
     visible |-> v.visible, advertised_start_time |-> v.advertised_start_time]

Tables ==
    UNION {{[i \in 1..n |-> MakeRow(i, f[i])] : f \in [1..n -> RowValues]} : n \in 0..MaxRows}

(***************************************************************************)
(* Query text.                                                             *)
(***************************************************************************)
racesList == "list"

\* The base query of the races table, a text of one fragment.
getRaceQueries ==
    [list |-> <<"SELECT id, meeting_id, name, number, visible, advertised_start_time FROM races">>]

RECURSIVE Repeat(_, _)
Repeat(s, n) == IF n <= 0 THEN <<>> ELSE <<s>> \o Repeat(s, n - 1)

RECURSIVE Join(_, _)
Join(elems, sep) ==
    IF Len(elems) = 0 THEN <<>>
    ELSE IF Len(elems) = 1 THEN elems[1]
    ELSE elems[1] \o <<sep>> \o Join(Tail(elems), sep)

FormatInt(i) == ToString(i)

applyFilter(q, f) ==
    IF ~f.present THEN [query |-> q, args |-> <<>>]
    ELSE
        LET hasIds == Len(f.MeetingIds) > 0
            clauses1 ==
                IF hasIds
                THEN << <<"meeting_id IN (">> \o Repeat("?,", Len(f.MeetingIds) - 1) \o <<"?)">> >>
                ELSE <<>>
            args == IF hasIds THEN f.MeetingIds ELSE <<>>
            clauses ==
                IF f.VisibleOnly THEN Append(clauses1, <<"visible=true">>) ELSE clauses1
            q1 == IF Len(clauses) # 0
                  THEN q \o <<" WHERE ">> \o Join(clauses, " AND ")
                  ELSE q
            q2 == q1 \o <<" ORDER BY advertised_start_time">>
            q3 == IF Len(f.OrderBy) > 0 /\ (f.OrderBy = "ASC" \/ f.OrderBy = "DESC")
                  THEN q2 \o <<" ", f.OrderBy>>
                  ELSE q2
        IN [query |-> q3, args |-> args]

getQuery(id) == getRaceQueries[racesList] \o <<" WHERE id=", FormatInt(id)>>

(***************************************************************************)
(* The store: what db.Query does with a query text and its arguments.      *)
(***************************************************************************)
HasToken(q, t) == \E i \in DOMAIN q : q[i] = t

Placeholders(q) == Cardinality({i \in DOMAIN q : q[i] \in {"?,", "?)"}})

\* database/sql rejects a statement whose placeholders and arguments differ
\* in number; the store knows only the statements of the races table.
QueryOk(q, args) ==
    /\ Len(q) >= 1
    /\ q[1] = getRaceQueries[racesList][1]
    /\ Placeholders(q) = Len(args)

RowSelected(q, args, r) ==
    /\ HasToken(q, "meeting_id IN (") => \E i \in DOMAIN args : args[i] = r.meeting_id
    /\ HasToken(q, "visible=true") => r.visible
    /\ \A i \in DOMAIN q :
           q[i] = " WHERE id=" => (i < Len(q) /\ q[i + 1] = FormatInt(r.id))

HasOrderBy(q) == HasToken(q, " ORDER BY advertised_start_time")

IsDesc(q) == HasOrderBy(q) /\ q[Len(q)] = "DESC" /\ q[Len(q) - 1] = " "

RECURSIVE SelectSeq2(_, _, _)
SelectSeq2(t, q, args) ==
    IF Len(t) = 0 THEN <<>>
    ELSE IF RowSelected(q, args, t[1])
         THEN <<t[1]>> \o SelectSeq2(Tail(t), q, args)
         ELSE SelectSeq2(Tail(t), q, args)

NonDecreasing(s) ==
    \A i, j \in DOMAIN s :
        i < j => s[i].advertised_start_time <= s[j].advertised_start_time

NonIncreasing(s) ==
    \A i, j \in DOMAIN s :
        i < j => s[i].advertised_start_time >= s[j].advertised_start_time

Permutations2(s) ==
    {[i \in DOMAIN s |-> s[p[i]]] :
        p \in {p \in [DOMAIN s -> DOMAIN s] : \A i, j \in DOMAIN s : i # j => p[i] # p[j]}}

\* The result sets the store may return.  Without ORDER BY the table is
\* scanned in rowid order; with it the rows are sorted on the start time, and
\* rows with equal start times come in either order.
QueryResults(t, q, args) ==
    LET sel == SelectSeq2(t, q, args)
    IN IF ~HasOrderBy(q) THEN {sel}
       ELSE {s \in Permutations2(sel) :
                IF IsDesc(q) THEN NonIncreasing(s) ELSE NonDecreasing(s)}

(***************************************************************************)
(* The row mapper, scanRaces, one row at a time.                           *)
(***************************************************************************)
\* rows.Scan fails with a conversion error.  (database/sql's Rows.Scan never
\* returns sql.ErrNoRows, so the branch of scanRaces that tests for it is
\* kept in ScanFailed and no input reaches it.)
ScanErrors == {"ScanError"}
ErrNoRows == "ErrNoRows"

\* The instant as a wire timestamp, validated: an error before
\* minValidSeconds and at or after maxValidSeconds.  Instants are whole
\* seconds, so Nanos is 0.
TimestampProto(t) ==
    IF t < minValidSeconds
    THEN [ts |-> Nil, err |-> "TimestampError: before 0001-01-01"]
    ELSE IF t >= maxValidSeconds
    THEN [ts |-> Nil, err |-> "TimestampError: after 10000-01-01"]
    ELSE [ts |-> [Seconds |-> t, Nanos |-> 0], err |-> Nil]

BeforeOrEqual(t, u) == t <= u

Before(t, u) == t < u

StatusOfSwapped(advertisedStart, now) ==
    IF Before(advertisedStart, now) THEN "OPEN" ELSE "CLOSED"

StatusOf(advertisedStart, now) ==
    IF Before(advertisedStart, now) THEN "CLOSED" ELSE "OPEN"

MapRow(r, ts, now) ==
    [Id |-> r.id, MeetingId |-> r.meeting_id, Name |-> r.name, Number |-> r.number,
     Visible |-> r.visible, AdvertisedStartTime |-> ts,
     Status |-> StatusOf(r.advertised_start_time, now)]

\* What scanRaces returns when rows.Scan fails with err.
ScanFailed(err) ==
    IF err = ErrNoRows THEN [races |-> <<>>, err |-> Nil]
    ELSE [races |-> <<>>, err |-> err]

\* What Get makes of scanRaces' result.
GetResult(r) ==
    IF Len(r.races) = 0 THEN [race |-> NilRace, err |-> r.err]
    ELSE [race |-> r.races[1], err |-> r.err]

\* The domain service: the repository's error with a nil response, or the
\* records in a response envelope.
ListEvents(r) ==
    IF r.err # Nil THEN [response |-> Nil, err |-> r.err]
    ELSE [response |-> [Events |-> r.races], err |-> Nil]

\* The request o returns: r is scanRaces' (or db.Query's) result.
Return(o, r, f) ==
    /\ pc' = "done"
    /\ ret' = IF o = "Get" THEN GetResult(r) ELSE r
    /\ resp' = IF o = "Get" THEN Nil ELSE ListEvents(r)
    /\ fault' = f
    /\ rows' = <<>>
    /\ pos' = 0
    /\ races' = <<>>

\* db.Query on the text q with args: an error, or an open cursor.
RunQuery(o, q, args, qerr) ==
    /\ query' = q
    /\ IF qerr # Nil \/ ~QueryOk(q, args)
       THEN /\ Return(o, [races |-> <<>>, err |-> "QueryError"], "query")
            /\ evalAt' = <<>>
       ELSE /\ \E rs \in QueryResults(table, q, args) : rows' = rs
            /\ pos' = 0
            /\ races' = <<>>
            /\ evalAt' = <<>>
            /\ fault' = "none"
            /\ pc' = "scan"
            /\ ret' = Nil
            /\ resp' = Nil

Idle == pc = "idle"

List(f, qerr) ==
    /\ Idle
    /\ op' = "List"
    /\ filter' = f
    /\ getId' = 0
    /\ LET b == applyFilter(getRaceQueries[racesList], f)
       IN RunQuery("List", b.query, b.args, qerr)
    /\ UNCHANGED <<table, clock, initVars, gatewayVars>>

Get(id, qerr) ==
    /\ Idle
    /\ op' = "Get"
    /\ filter' = NilFilter
    /\ getId' = id
    /\ RunQuery("Get", getQuery(id), <<>>, qerr)
    /\ UNCHANGED <<table, clock, initVars, gatewayVars>>

\* rows.Next() is true: Scan, TimestampProto, the status, append.
ScanRow(serr) ==
    /\ pc = "scan"
    /\ pos < Len(rows)
    /\ LET r == rows[pos + 1]
           conv == TimestampProto(r.advertised_start_time)
       IN IF serr # Nil
          THEN Return(op, ScanFailed(serr), "scan") /\ UNCHANGED evalAt
          ELSE IF conv.err # Nil
          THEN Return(op, [races |-> <<>>, err |-> conv.err], "timestamp") /\ UNCHANGED evalAt
          ELSE /\ races' = Append(races, MapRow(r, conv.ts, clock))
               /\ evalAt' = Append(evalAt, clock)
               /\ pos' = pos + 1
               /\ UNCHANGED <<pc, rows, fault, ret, resp>>
    /\ UNCHANGED <<table, clock, op, filter, getId, query, initVars, gatewayVars>>

\* rows.Next() is false at the end of the result set.
ScanEnd ==
    /\ pc = "scan"
    /\ pos = Len(rows)
    /\ Return(op, [races |-> races, err |-> Nil], "none")
    /\ UNCHANGED <<table, clock, op, filter, getId, query, evalAt, initVars, gatewayVars>>

\* rows.Next() is false because stepping the statement failed (the first step
\* runs the query): the error is left in rows.Err(), which scanRaces does not
\* read.
ScanIterFail ==
    /\ pc = "scan"
    /\ Return(op, [races |-> races, err |-> Nil], "iteration")
    /\ UNCHANGED <<table, clock, op, filter, getId, query, evalAt, initVars, gatewayVars>>

\* The caller has its result; the repository serves the next request.
Complete ==
    /\ pc = "done"
    /\ pc' = "idle"
    /\ op' = "none"
    /\ filter' = NilFilter
    /\ getId' = 0
    /\ query' = <<>>
    /\ evalAt' = <<>>
    /\ fault' = "none"
    /\ ret' = Nil
    /\ resp' = Nil
    /\ UNCHANGED <<table, clock, rows, pos, races, initVars, gatewayVars>>

Tick ==
    /\ clock < MaxClock
    /\ clock' = clock + 1
    /\ UNCHANGED <<table, op, pc, filter, getId, query, rows, pos, races, evalAt,
                   fault, ret, resp, initVars, gatewayVars>>

GetIds == 1..(MaxRows + 1)

InitQuery ==
    /\ table \in Tables
    /\ clock = 0
    /\ op = "none"
    /\ pc = "idle"
    /\ filter = NilFilter
    /\ getId = 0
    /\ query = <<>>
    /\ rows = <<>>
    /\ pos = 0
    /\ races = <<>>
    /\ evalAt = <<>>
    /\ fault = "none"
    /\ ret = Nil
    /\ resp = Nil

InitIdleStartup ==
    /\ once = [done |-> 0, m |-> 0]
    /\ ipc = [c \in Callers |-> "idle"]
    /\ ierr = [c \in Callers |-> Nil]
    /\ iret = [c \in Callers |-> "none"]
    /\ seedRuns = 0
    /\ seedDone = 0
    /\ seedErr = "none"
    /\ gpc = "start"
    /\ registered = {}
    /\ cancelled = FALSE
    /\ served = FALSE
    /\ runRet = "none"

Init == InitQuery /\ InitIdleStartup

Next ==
    \/ \E f \in Filters, qerr \in {Nil, "QueryError"} : List(f, qerr)
    \/ \E id \in GetIds, qerr \in {Nil, "QueryError"} : Get(id, qerr)
    \/ \E serr \in ScanErrors \cup {Nil} : ScanRow(serr)
    \/ ScanEnd
    \/ ScanIterFail
    \/ Complete
    \/ Tick

Spec == Init /\ [][Next]_vars

(***************************************************************************)
(* racesRepo.Init: sync.Once around the seed logic.                        *)
(***************************************************************************)
SeedOutcomes == {Nil, "SeedError"}

\* The example races the seed logic inserts: one meeting, visible, with
\* convertible start times.
SeedRowValues ==
    {v \in RowValues :
        v.meeting_id = 1 /\ v.visible /\ ValidInstant(v.advertised_start_time)}

IsPrefix(t, u) == Len(t) <= Len(u) /\ \A i \in DOMAIN t : u[i] = t[i]

\* The store after the seed logic ran on store t and returned e: the stored
\* rows are kept and example races are inserted after them, all MaxRows of
\* them when it succeeded, only some (or none) when it failed part-way.
SeedWrites(t, e) ==
    {u \in Tables :
        /\ IsPrefix(t, u)
        /\ \A i \in (Len(t) + 1)..Len(u) :
               \E v \in SeedRowValues : u[i] = MakeRow(i, v)
        /\ IF e = Nil THEN Len(u) = MaxRows ELSE Len(u) < MaxRows \/ u = t}

OnceAlways(o) == TRUE

\* Once.Do's test of done, first without and then under the mutex.
OnceNotDone(o) == o.done = 0

\* Init is called: var err error.
InitCall(c) ==
    /\ ipc[c] = "idle"
    /\ ierr' = [ierr EXCEPT ![c] = Nil]
    /\ ipc' = [ipc EXCEPT ![c] = "fast"]
    /\ UNCHANGED <<once, iret, seedRuns, seedDone, seedErr, queryVars, gatewayVars>>

\* Once.Do: done is loaded; the slow path is taken while it is 0.
OnceFast(c) ==
    /\ ipc[c] = "fast"
    /\ ipc' = [ipc EXCEPT ![c] = IF OnceNotDone(once) THEN "lock" ELSE "return"]
    /\ UNCHANGED <<once, ierr, iret, seedRuns, seedDone, seedErr, queryVars, gatewayVars>>

\* doSlow: o.m.Lock() blocks while another caller holds the mutex.
OnceLock(c) ==
    /\ ipc[c] = "lock"
    /\ once.m = 0
    /\ once' = [once EXCEPT !.m = c]
    /\ ipc' = [ipc EXCEPT ![c] = "slow"]
    /\ UNCHANGED <<ierr, iret, seedRuns, seedDone, seedErr, queryVars, gatewayVars>>

\* doSlow: under the mutex, done is loaded again; f starts while it is 0,
\* else the mutex is released.
OnceSlow(c) ==
    /\ ipc[c] = "slow"
    /\ IF OnceNotDone(once)
       THEN /\ seedRuns' = seedRuns + 1
            /\ ipc' = [ipc EXCEPT ![c] = "seed"]
            /\ UNCHANGED once
       ELSE /\ once' = [once EXCEPT !.m = 0]
            /\ ipc' = [ipc EXCEPT ![c] = "return"]
            /\ UNCHANGED seedRuns
    /\ UNCHANGED <<ierr, iret, seedDone, seedErr, queryVars, gatewayVars>>

\* The closure: err = r.seed().  The seed logic writes the races table.
Seed(c, e) ==
    /\ ipc[c] = "seed"
    /\ table' \in SeedWrites(table, e)
    /\ ierr' = [ierr EXCEPT ![c] = e]
    /\ seedDone' = seedDone + 1
    /\ seedErr' = e
    /\ ipc' = [ipc EXCEPT ![c] = "store"]
    /\ UNCHANGED <<once, iret, seedRuns, readVars, gatewayVars>>

\* doSlow's deferred calls, last first: done.Store(1), then m.Unlock().
OnceStore(c) ==
    /\ ipc[c] = "store"
    /\ once' = [once EXCEPT !.done = 1]
    /\ ipc' = [ipc EXCEPT ![c] = "unlock"]
    /\ UNCHANGED <<ierr, iret, seedRuns, seedDone, seedErr, queryVars, gatewayVars>>

OnceUnlock(c) ==
    /\ ipc[c] = "unlock"
    /\ once' = [once EXCEPT !.m = 0]
    /\ ipc' = [ipc EXCEPT ![c] = "return"]
    /\ UNCHANGED <<ierr, iret, seedRuns, seedDone, seedErr, queryVars, gatewayVars>>

\* return err
InitReturn(c) ==
    /\ ipc[c] = "return"
    /\ iret' = [iret EXCEPT ![c] = ierr[c]]
    /\ ipc' = [ipc EXCEPT ![c] = "done"]
    /\ UNCHANGED <<once, ierr, seedRuns, seedDone, seedErr, queryVars, gatewayVars>>

(***************************************************************************)
(* The gateway's run.                                                      *)
(***************************************************************************)
RegisterOutcomes == {Nil, "RegistrationError"}
Backends == {"racing", "sports"}

\* if racingErr != nil { return racingErr }
racingErrReturns(err) == err # Nil

sportsErrIgnored(err) == FALSE

\* if sportsErr != nil { return sportsErr }
sportsErrReturns(err) == err # Nil

\* run returns err: the deferred cancel() runs.
RunReturns(err) ==
    /\ gpc' = "returned"
    /\ runRet' = err
    /\ cancelled' = TRUE

RegisterRacing(err) ==
    /\ gpc = "start"
    /\ IF racingErrReturns(err)
       THEN RunReturns(err) /\ UNCHANGED registered
       ELSE /\ registered' = IF err = Nil THEN registered \cup {"racing"} ELSE registered
            /\ gpc' = "racingDone"
            /\ UNCHANGED <<runRet, cancelled>>
    /\ UNCHANGED <<served, queryVars, initVars>>

RegisterSports(err) ==
    /\ gpc = "racingDone"
    /\ IF sportsErrReturns(err)
       THEN RunReturns(err) /\ UNCHANGED registered
       ELSE /\ registered' = IF err = Nil THEN registered \cup {"sports"} ELSE registered
            /\ gpc' = "sportsDone"
            /\ UNCHANGED <<runRet, cancelled>>
    /\ UNCHANGED <<served, queryVars, initVars>>

\* http.ListenAndServe starts serving on apiEndpoint, or fails to bind.
ListenAndServe(bound) ==
    /\ gpc = "sportsDone"
    /\ IF bound
       THEN /\ gpc' = "listening"
            /\ served' = TRUE
            /\ UNCHANGED <<runRet, cancelled>>
       ELSE RunReturns("ListenError") /\ UNCHANGED served
    /\ UNCHANGED <<registered, queryVars, initVars>>

\* The listener fails: ListenAndServe returns its error, and run with it.
ServeFails ==
    /\ gpc = "listening"
    /\ RunReturns("ServeError")
    /\ UNCHANGED <<registered, served, queryVars, initVars>>

InitStartup ==
    /\ table = <<>>
    /\ clock = 0
    /\ op = "none"
    /\ pc = "idle"
    /\ filter = NilFilter
    /\ getId = 0
    /\ query = <<>>
    /\ rows = <<>>
    /\ pos = 0
    /\ races = <<>>
    /\ evalAt = <<>>
    /\ fault = "none"
    /\ ret = Nil
    /\ resp = Nil
    /\ InitIdleStartup

NextStartup ==
    \/ \E c \in Callers : InitCall(c)
    \/ \E c \in Callers : OnceFast(c)
    \/ \E c \in Callers : OnceLock(c)
    \/ \E c \in Callers : OnceSlow(c)
    \/ \E c \in Callers, e \in SeedOutcomes : Seed(c, e)
    \/ \E c \in Callers : OnceStore(c)
    \/ \E c \in Callers : OnceUnlock(c)
    \/ \E c \in Callers : InitReturn(c)
    \/ \E err \in RegisterOutcomes : RegisterRacing(err)
    \/ \E err \in RegisterOutcomes : RegisterSports(err)
    \/ \E bound \in BOOLEAN : ListenAndServe(bound)
    \/ ServeFails

Startup == InitStartup /\ [][NextStartup]_vars

(***************************************************************************)
(* Properties of Init (specification Startup).                             *)
(***************************************************************************)
Returned(c) == ipc[c] = "done"

\* C1: every Init call returns the outcome of the one seed execution: its
\* error if it failed, success if it succeeded.
C1_AllCallersSameOutcome ==
    \A c \in Callers : Returned(c) => iret[c] = seedErr

\* C2: the seed logic is executed exactly once however the Init calls
\* interleave, and no Init call returns before that execution has completed.
C2_SeedExactlyOnce ==
    /\ seedRuns <= 1
    /\ seedDone <= seedRuns
    /\ \A c \in Callers :
           ipc[c] \in {"return", "done"} => (seedRuns = 1 /\ seedDone = 1)

C2_Witness ==
    /\ \A c \in Callers : Returned(c)
    /\ seedDone = 1

(***************************************************************************)
(* Properties of the gateway (specification Startup).                      *)
(***************************************************************************)
\* C8: the gateway listens only after both backends are registered; when a
\* registration fails run returns that error and the listener never starts.
C8_ListenOnlyAfterBothRegistered ==
    /\ gpc = "listening" => registered = Backends
    /\ served => registered = Backends
    /\ runRet = "RegistrationError" => (~served /\ gpc = "returned")

C8_Witness ==
    /\ gpc = "listening"
    /\ served
    /\ registered = Backends

(***************************************************************************)
(* Properties of List and Get (specification Spec).                        *)
(***************************************************************************)
Start(r) == r.AdvertisedStartTime.Seconds

ListDone == op = "List" /\ pc = "done"
GetDone == op = "Get" /\ pc = "done"

NotFound == [race |-> NilRace, err |-> Nil]

\* C3: Get of an identifier no record has returns NotFound, never a record;
\* a found record is the stored record of that identifier; and a Get whose
\* query or row iteration failed is not reported as NotFound.
C3_GetNotFoundDistinct ==
    GetDone =>
        LET matching == {i \in DOMAIN table : table[i].id = getId}
        IN /\ (fault = "none" /\ matching = {}) => ret = NotFound
           /\ ret.race # NilRace => (matching # {} /\ ret.race.Id = getId)
           /\ fault \in {"query", "iteration"} => ret # NotFound

\* The status rule: each mapped record is CLOSED iff its start time is
\* strictly before the instant at which it was evaluated, else OPEN.
StatusRule(rs) ==
    \A i \in DOMAIN rs :
        /\ rs[i].Status = (IF Start(rs[i]) < evalAt[i] THEN "CLOSED" ELSE "OPEN")
        /\ Start(rs[i]) = evalAt[i] => rs[i].Status = "OPEN"

\* C4: the status of every record List or Get maps and returns follows the
\* status rule at the record's evaluation instant, and no step writes to the
\* store: a record read again after the clock passed its start time is CLOSED.
C4_StatusAtEvaluation ==
    /\ [](/\ Len(evalAt) >= Len(races)
          /\ StatusRule(races)
          /\ ListDone => (Len(evalAt) >= Len(ret.races) /\ StatusRule(ret.races))
          /\ (GetDone /\ ret.race # NilRace) => StatusRule(<<ret.race>>))
    /\ [][table' = table]_vars

\* A response with a CLOSED record whose start time was still ahead at the
\* initial instant, and an OPEN record evaluated exactly at its start time.
C4_Witness ==
    /\ ListDone
    /\ \E i, j \in DOMAIN ret.races :
           /\ ret.races[i].Status = "CLOSED"
           /\ Start(ret.races[i]) > 0
           /\ ret.races[j].Status = "OPEN"
           /\ Start(ret.races[j]) = evalAt[j]

\* C5: List's result is ordered by start time, non-increasing when the order
\* directive is exactly "DESC" and non-decreasing in every other case, the
\* absent filter included.
C5_ListOrdered ==
    ListDone =>
        \A i, j \in DOMAIN ret.races :
            i < j =>
                IF filter.present /\ filter.OrderBy = "DESC"
                THEN Start(ret.races[i]) >= Start(ret.races[j])
                ELSE Start(ret.races[i]) <= Start(ret.races[j])

EmptyFilter == [present |-> TRUE, MeetingIds |-> <<>>, VisibleOnly |-> FALSE, OrderBy |-> ""]

Ids(rs) == [i \in DOMAIN rs |-> rs[i].id]
RaceIds(rs) == [i \in DOMAIN rs |-> rs[i].Id]

\* C6: List without a filter returns the records List returns for a present
\* filter with no identifiers, the flag unset and no order directive, in the
\* same order.
C6_EmptyFilterEqualsAbsent ==
    (ListDone /\ ~filter.present /\ fault = "none") =>
        LET b == applyFilter(getRaceQueries[racesList], EmptyFilter)
        IN RaceIds(ret.races) \in {Ids(rs) : rs \in QueryResults(table, b.query, b.args)}

\* The restrictions of filter f on a stored row.
FilterHolds(f, r) ==
    /\ (f.present /\ Len(f.MeetingIds) > 0) =>
           \E k \in DOMAIN f.MeetingIds : f.MeetingIds[k] = r.meeting_id
    /\ (f.present /\ f.VisibleOnly) => r.visible

\* C7: a successful List returns exactly the stored records that satisfy the
\* filter's active restrictions, each once; its query has one placeholder
\* per identifier.
C7_ListMatchesFilter ==
    /\ (op = "List" /\ pc \in {"scan", "done"}) =>
           Placeholders(query) = Len(filter.MeetingIds)
    /\ (ListDone /\ ret.err = Nil) =>
           /\ {ret.races[i].Id : i \in DOMAIN ret.races}
                = {table[i].id : i \in {k \in DOMAIN table : FilterHolds(filter, table[k])}}
           /\ \A i, j \in DOMAIN ret.races :
                  i # j => ret.races[i].Id # ret.races[j].Id

\* C9: a List or Get that met a query, scan, timestamp or iteration failure
\* returns an error and no records, and the domain service passes the error
\* on with a nil response.
C9_FailureReturnsError ==
    (pc = "done" /\ fault # "none") =>
        /\ ret.err # Nil
        /\ op = "List" => (ret.races = <<>> /\ resp = [response |-> Nil, err |-> ret.err])
        /\ op = "Get" => ret.race = NilRace

\* C10 as stated: within one List response, a record that starts no later
\* than a CLOSED record is CLOSED.
C10_OneReadInstant ==
    ListDone =>
        \A i, j \in DOMAIN ret.races :
            (Start(ret.races[i]) <= Start(ret.races[j]) /\ ret.races[j].Status = "CLOSED")
                => ret.races[i].Status = "CLOSED"

\* C10 amended: within one List response, a record that starts no later than
\* a CLOSED record and was evaluated no earlier than it is CLOSED.
C10_PerRecordInstant ==
    ListDone =>
        \A i, j \in DOMAIN ret.races :
            (/\ Start(ret.races[i]) <= Start(ret.races[j])
             /\ ret.races[j].Status = "CLOSED"
             /\ evalAt[i] >= evalAt[j])
                => ret.races[i].Status = "CLOSED"

\* Two records of one response with the same start time, the first OPEN and
\* the second, evaluated after the clock passed that time, CLOSED.
C10_Witness ==
    /\ ListDone
    /\ \E i, j \in DOMAIN ret.races :
           /\ i < j
           /\ Start(ret.races[i]) = Start(ret.races[j])
           /\ ret.races[i].Status = "OPEN"
           /\ ret.races[j].Status = "CLOSED"
           /\ evalAt[i] < evalAt[j]

====
